---- MODULE Spec2Model ----
(***************************************************************************)
(* A model of the four SMURF helper scripts configmeld.py, pol2ip.py,      *)
(* pol2stack.py and tounimap.py.  Each script is one top-level try block   *)
(* with two handlers; `script' says which one is running and `pc' where it *)
(* is.  External commands (invoke, get_task_par, get_fits_header, the      *)
(* parameter system) are inputs: their results are drawn from small sets   *)
(* and their failure is a StarUtilError.                                   *)
(*                                                                         *)
(* Numbers.  pol2ip works in floating point.  Here elevations are taken    *)
(* from multiples of 45 degrees, where cos(-2el) and sin(-2el) are 1, 0 or *)
(* -1, and the elevation in radians is counted in units of pi/4 (which     *)
(* only rescales B and C), so that every model value is an integer.  An    *)
(* RMS sqrt(ss/n) is kept as the pair (ss, n), and |d| < 2*sqrt(ss/n) is   *)
(* decided exactly as n*d*d < 4*ss.                                        *)
(***************************************************************************)
EXTENDS Integers, Sequences, FiniteSets, TLC

VARIABLES
  script,      \* which script is running
  pc,          \* position in the script
  log,         \* what the script printed / which clean-ups it called, in order
  RETAIN,      \* the value the user gives for parameter RETAIN
  retain,      \* the script's global `retain'
  RESTART,     \* pol2ip: the value the user gives for parameter RESTART
  restart,     \* pol2ip: the script's global `restart'
  obslen,      \* pol2ip: number of lines of the OBSLIST file
  ndgdir,      \* NDG.tempdir still exists
  adamdir,     \* the temporary ADAM directory of ParSys still exists
  dofit,       \* pol2ip: scipy could be imported
  diam,        \* pol2ip: value of parameter DIAM
  nobs,        \* pol2ip: number of observations of OBSLIST looped over so far
  actpixsize0, \* pol2ip: pixel size of the first Q map (0 models None)
  obsdata,     \* pol2ip: what the commands returned for each observation looped
               \* over: <<elevation, Q, U, whether Q and U were stored>>
  elist, alist, wvmlist, utlist, obsnumlist, qlist, ulist,
  elist0, qlist0, ulist0,
  ival,        \* pol2ip: total intensity
  iter,        \* pol2ip: the fit loop's index i
  resx,        \* pol2ip: res.x, the fitted (a,b,c)
  qrms, urms,  \* pol2ip: RMS residuals, as [ss |-> sum of squares, n |-> count]
  sky,         \* pol2ip: the (elevation, Q, U) the commands can measure
  pixset,      \* pol2ip: the pixel sizes makemap's default or an old map can have
  mapfiles,    \* pol2ip: whether an observation's qmap.sdf and umap.sdf can
               \* exist already, as pairs
  PIXSIZE,     \* pol2ip: the value the user gives for PIXSIZE (0 models null)
  parfile,     \* pol2ip: pixsize in the PARAMS file of the RESTART directory
               \* (-1: no such file, 0: no pixsize line in it)
  pixsize,     \* pol2ip: the script's `pixsize' (0 models None)
  newpixsize,  \* pol2ip: the script's `newpixsize'
  mapdata,     \* pol2ip: for each observation looped over, whether its maps
               \* existed, whether makemap was invoked, and their pixel sizes
  ipix,        \* pol2ip: pixel size of the I map used (0 before that)
  cfg1, cfg2,  \* configmeld: what the commands find for CONFIG1 and CONFIG2
  WAVEBAND,    \* configmeld: the value the user gives for parameter WAVEBAND
  wavebandRead,\* configmeld: parsys["WAVEBAND"].value was accessed
  isndf1, isndf2, subarray, waveband1, waveband2,
  select1, select2, \* configmeld: the select specifier of each listing
  tmp1, tmp2,  \* configmeld: config1.tmp / config2.tmp exists
  iin,         \* pol2stack: the INBEAM header of each I map, in order
  FILTER,      \* pol2stack: the FILTER header of the first Q map
  ipol2,       \* pol2stack: "None", "True" or "False"
  fcf_qu, fcf_i \* pol2stack: the FCFs chosen (0 before that)

ipvars == <<dofit, diam, nobs, actpixsize0, obsdata, elist, alist, wvmlist, utlist,
            obsnumlist, qlist, ulist, elist0, qlist0, ulist0, ival, iter,
            resx, qrms, urms, restart, RESTART, obslen,
            sky, pixset, mapfiles, PIXSIZE, parfile,
            pixsize, newpixsize, mapdata, ipix>>
ipenv == <<sky, pixset, mapfiles, PIXSIZE, parfile>>
pxvars == <<pixsize, newpixsize, mapdata, ipix>>
lists7 == <<elist, alist, wvmlist, utlist, obsnumlist, qlist, ulist>>
fitvars == <<elist0, qlist0, ulist0, ival, iter, resx, qrms, urms>>
exitvars == <<log, retain, ndgdir, adamdir>>
cmvars == <<cfg1, cfg2, WAVEBAND, wavebandRead, isndf1, isndf2, subarray,
            waveband1, waveband2, select1, select2, tmp1, tmp2>>
stvars == <<iin, FILTER, ipol2, fcf_qu, fcf_i>>
vars == <<script, pc, RETAIN, exitvars, ipvars, cmvars, stvars>>

\* ---------------------------------------------------------------- bounds
MaxObs == 4            \* longest OBSLIST when pol2ip is run alone
MaxObsAll == 2         \* longest OBSLIST when any of the scripts is run
MaxMaps == 3           \* pol2stack: largest number of I maps
MaxObsZN == 3          \* longest OBSLIST of the runs on data without noise
MaxObsPix == 2         \* longest OBSLIST of the runs with old maps
ElVals == {45, 90}     \* elevations (degrees) at mid-observation
\* (elevation, aperture mean of Q, aperture mean of U) of an observation
ObsVals == {<<45, 0, 0>>, <<45, 4, 0>>, <<45, 0, 1>>,
            <<90, 0, 0>>, <<90, 4, 0>>, <<90, 0, 1>>}
PeakVals == {2}        \* beamfit peak polarised intensities
IVals == {0, 1}        \* total intensities (pW) of the I map
DiamVals == {0, 40}    \* DIAM: peak fit (<= 0) or aperture
Coefs == {-1, 0, 1}    \* values the fit may return for a, b or c

None == "None"

\* ------------------------------------------------------------ clean-up
\* Entries of `log' are tuples of strings.
CallCleanup == <<"call", "cleanup">>
ParSysCleanup == <<"call", "ParSys.cleanup">>
NDGCleanup == <<"call", "NDG.cleanup">>
MsgRetaining == <<"msg", "Retaining temporary files">>
PrintErr == <<"print", "err">>
Reraise == <<"raise">>

\* pol2ip.cleanup(), called after `pre' was logged and before `post' is
ip_cleanup(pre, post) ==
  /\ adamdir' = FALSE
  /\ IF retain
       THEN /\ log' = log \o pre \o <<CallCleanup, ParSysCleanup, MsgRetaining>> \o post
            /\ ndgdir' = ndgdir
       ELSE /\ log' = log \o pre \o <<CallCleanup, ParSysCleanup, NDGCleanup>> \o post
            /\ ndgdir' = FALSE
  /\ UNCHANGED retain

\* ------------------------------------------------------- pol2ip: the model
\* cos(-2*el) and sin(-2*el) at the elevations of ElVals
Cos2(el) == CASE el = 0 -> 1 [] el = 45 -> 0 [] el = 90 -> -1 [] OTHER -> 0
Sin2(el) == CASE el = 0 -> 0 [] el = 45 -> -1 [] el = 90 -> 0 [] OTHER -> 1

\* radians(el), in units of pi/4
radians(el) == el \div 45

model2(el, x) ==
  LET elval == radians(el)
      p1 == x[1] + x[2]*elval + x[3]*elval*elval
  IN  <<ival * p1 * Cos2(el), ival * p1 * Sin2(el)>>

model(i, x) == model2(elist[i], x)

RECURSIVE objsum(_, _)
objsum(i, x) ==
  IF i = 0 THEN 0
  ELSE LET m == model(i, x)
           dq == m[1] - qlist[i]
           du == m[2] - ulist[i]
       IN  objsum(i - 1, x) + dq*dq + du*du

objfun(x) == objsum(Len(elist), x)

ParamGrid == Coefs \X Coefs \X Coefs

\* The initial guess x0 = [0.01,0.0,0.0], on the grid
x0 == <<0, 0, 0>>

Dist2(x, y) ==
  (x[1]-y[1])*(x[1]-y[1]) + (x[2]-y[2])*(x[2]-y[2]) + (x[3]-y[3])*(x[3]-y[3])

Least(S) == CHOOSE m \in S : \A k \in S : m <= k

\* scipy.optimize.minimize(objfun, x0, method='nelder-mead'): the simplex
\* search descends from x0, so it ends at a minimiser of objfun that is as
\* near to x0 as any (where objfun does not depend on a parameter, the
\* parameter stays at its guess)
minimize ==
  LET best == Least({objfun(y) : y \in ParamGrid})
      mins == {x \in ParamGrid : objfun(x) = best}
      near == Least({Dist2(x, x0) : x \in mins})
  IN  {x \in mins : Dist2(x, x0) = near}

\* the residual that resid and reject look at
dqu(useq, i, x) ==
  IF useq THEN model(i, x)[1] - qlist[i] ELSE model(i, x)[2] - ulist[i]

\* the sum of squares over the lists as they were before any clip
RECURSIVE ressum0(_, _, _)
ressum0(useq, i, x) ==
  IF i = 0 THEN 0
  ELSE LET m == model2(elist0[i], x)
           d == IF useq THEN m[1] - qlist0[i] ELSE m[2] - ulist0[i]
       IN  ressum0(useq, i - 1, x) + d * d

\* a resid() that looks at the recorded original lists
resid_originals(useq, x) ==
  [ss |-> ressum0(useq, Len(elist0), x), n |-> Len(elist0)]

RECURSIVE ressum(_, _, _)
ressum(useq, i, x) ==
  IF i = 0 THEN 0
  ELSE ressum(useq, i - 1, x) + dqu(useq, i, x) * dqu(useq, i, x)

\* resid: sqrt(res/len(elist)) as the pair (res, len(elist)); len(elist) > 0
resid(useq, x) == [ss |-> ressum(useq, Len(elist), x), n |-> Len(elist)]

\* a limit of three times the RMS
Below_3rms(d, rms) == rms.n * d * d < 9 * rms.ss

\* fabs( dqu ) < lim, with lim = 2*rms
Below(d, rms) == rms.n * d * d < 4 * rms.ss

RECURSIVE keep(_, _, _, _)
keep(useq, rms, x, i) ==
  IF i = 0 THEN <<>>
  ELSE IF Below(dqu(useq, i, x), rms)
         THEN Append(keep(useq, rms, x, i - 1), i)
         ELSE keep(useq, rms, x, i - 1)

Pick(list, idx) == [k \in 1..Len(idx) |-> list[idx[k]]]

\* a reject() that leaves ulist as it was
reject_qeOnly(useq, rms, x) ==
  LET idx == keep(useq, rms, x, Len(elist))
  IN  [q |-> Pick(qlist, idx), u |-> ulist, e |-> Pick(elist, idx)]

\* reject(useq, 2*rms, x): the new qlist, ulist and elist
reject(useq, rms, x) ==
  LET idx == keep(useq, rms, x, Len(elist))
  IN  [q |-> Pick(qlist, idx), u |-> Pick(ulist, idx), e |-> Pick(elist, idx)]

\* FITS headers of the Q map of the o-th observation of OBSLIST
AzOf(o) == 100 + o
WvmOf(o) == 200 + o
UtOf(o) == 300 + o
ObsnumOf(o) == o

\* the beamfit failure branch without its del statements
DropLast_noDel(s) == s

\* del list[-1]
DropLast(s) == SubSeq(s, 1, Len(s) - 1)

\* ------------------------------------------------------ pol2ip: the script
IP_TryPcs == {"parsys", "obslist", "pars", "restart", "env", "conf", "obs",
              "iref", "record", "fit", "qrms", "qclip", "urms", "uclip",
              "report", "table", "params", "cleanup"}

IP_ParSys ==
  /\ script = "pol2ip" /\ pc = "parsys"
  /\ pc' = "obslist"
  /\ UNCHANGED <<ipenv, pxvars, stvars, cmvars, script, RETAIN, exitvars, ipvars>>

\* OBSLIST: raise UsageError if the file does not exist
IP_Obslist ==
  /\ script = "pol2ip" /\ pc = "obslist"
  /\ \E isfile \in BOOLEAN : pc' = IF isfile THEN "pars" ELSE "except_SUE"
  /\ UNCHANGED <<ipenv, pxvars, stvars, cmvars, script, RETAIN, exitvars, ipvars>>

\* IREF, DIAM, QUDIR, TABLE, PIXSIZE
IP_Pars ==
  /\ script = "pol2ip" /\ pc = "pars"
  /\ \E d \in DiamVals : diam' = d
  /\ pixsize' = PIXSIZE
  /\ pc' = "restart"
  /\ UNCHANGED <<ipenv, newpixsize, mapdata, ipix, stvars, cmvars, script, RETAIN, exitvars, dofit, nobs, actpixsize0, obsdata, lists7,
                 fitvars, restart, RESTART, obslen>>

\* RESTART, and RETAIN when RESTART is null
IP_Restart ==
  /\ script = "pol2ip" /\ pc = "restart"
  /\ restart' = RESTART
  /\ IF RESTART = None
       THEN retain' = RETAIN /\ pc' = "env"
       ELSE retain' = TRUE /\ pc' = IF RESTART = "nodir" THEN "except_SUE" ELSE "env"
  /\ UNCHANGED <<ipenv, pxvars, stvars, cmvars, script, RETAIN, log, ndgdir, adamdir, dofit, diam, nobs,
                 actpixsize0, obsdata, lists7, fitvars, RESTART, obslen>>

\* SC2 and STARLINK_DIR must be defined
IP_Env ==
  /\ script = "pol2ip" /\ pc = "env"
  /\ \E defined \in BOOLEAN : pc' = IF defined THEN "conf" ELSE "except_SUE"
  /\ UNCHANGED <<ipenv, pxvars, stvars, cmvars, script, RETAIN, exitvars, ipvars>>

\* a variant that overlooks a RESTART directory without a PARAMS file
changed_fileOnly(rst, old, new) ==
  IF rst # None
    THEN IF old # -1
           THEN IF old # 0 THEN new = 0 \/ old # new
                ELSE new # 0
           ELSE FALSE
    ELSE FALSE

\* "Has the pixel size changed?"
changed(rst, old, new) ==
  IF rst # None
    THEN IF old # -1
           THEN IF old # 0 THEN new = 0 \/ old # new
                ELSE new # 0
           ELSE new # 0
    ELSE FALSE

\* the makemap configuration, and the parameters of the previous run
IP_Conf ==
  /\ script = "pol2ip" /\ pc = "conf"
  /\ newpixsize' = changed(restart, parfile, pixsize)
  /\ pc' = "obs"
  /\ UNCHANGED <<ipenv, pixsize, mapdata, ipix, stvars, cmvars, script, RETAIN, exitvars,
                 dofit, diam, nobs, actpixsize0, obsdata, lists7, fitvars,
                 restart, RESTART, obslen>>

\* a variant that re-uses every map there is
makes_ifMissing(there) == ~there

\* "if not os.path.exists( mapfile ) or newpixsize:" makemap is invoked
makes(there) == ~there \/ newpixsize

\* the pixel sizes a map can have: makemap is given PIXSIZE if there is one
MapPix(made) == IF made /\ pixsize # 0 THEN {pixsize} ELSE pixset

\* what a pass can find and do about the Q and U maps of an observation
MapPasses ==
  {m \in [qthere : BOOLEAN, uthere : BOOLEAN, qmade : BOOLEAN, umade : BOOLEAN,
          qpix : pixset \cup {pixsize}, upix : pixset \cup {pixsize}] :
     /\ <<m.qthere, m.uthere>> \in mapfiles
     /\ m.qmade = makes(m.qthere) /\ m.umade = makes(m.uthere)
     /\ m.qpix \in MapPix(m.qmade) /\ m.upix \in MapPix(m.umade)}

\* actpixsize0 after the Q map of pass m
FirstPix(m) == IF actpixsize0 = 0 THEN m.qpix ELSE actpixsize0

\* the tests of the pixel size of the Q map and of the U map
QPixOk(m) == m.qpix = FirstPix(m)

\* a variant without the test of the U map
UPixOk_unchecked(m) == TRUE

UPixOk(m) == m.upix = FirstPix(m)

\* One pass of "for obs in obslist" with DIAM > 0: the aperture means
IP_ObsAper ==
  /\ script = "pol2ip" /\ pc = "obs" /\ nobs < obslen /\ diam > 0
  /\ \E o \in sky :
       /\ elist' = Append(elist, o[1])
       /\ qlist' = Append(qlist, o[2])
       /\ ulist' = Append(ulist, o[3])
       /\ obsdata' = Append(obsdata, <<o[1], o[2], o[3], TRUE>>)
  /\ alist' = Append(alist, AzOf(nobs + 1))
  /\ wvmlist' = Append(wvmlist, WvmOf(nobs + 1))
  /\ utlist' = Append(utlist, UtOf(nobs + 1))
  /\ obsnumlist' = Append(obsnumlist, ObsnumOf(nobs + 1))
  /\ nobs' = nobs + 1
  /\ \E m \in MapPasses :
       /\ QPixOk(m) /\ UPixOk(m)
       /\ mapdata' = Append(mapdata, m)
       /\ actpixsize0' = FirstPix(m)
  /\ UNCHANGED <<ipenv, pixsize, newpixsize, ipix, stvars, cmvars, script, pc, RETAIN,
                 exitvars, dofit, diam, fitvars, restart, RESTART, obslen>>

\* One pass with DIAM <= 0: beamfit gives the peak, or fails and the five
\* entries appended for this observation are deleted again
IP_ObsPeak ==
  /\ script = "pol2ip" /\ pc = "obs" /\ nobs < obslen /\ diam <= 0
  /\ \E el \in ElVals, ok \in BOOLEAN, pipeak \in PeakVals :
       IF ok
         THEN /\ obsdata' = Append(obsdata, <<el, pipeak * Cos2(el), pipeak * Sin2(el), TRUE>>)
              /\ elist' = Append(elist, el)
              /\ alist' = Append(alist, AzOf(nobs + 1))
              /\ wvmlist' = Append(wvmlist, WvmOf(nobs + 1))
              /\ utlist' = Append(utlist, UtOf(nobs + 1))
              /\ obsnumlist' = Append(obsnumlist, ObsnumOf(nobs + 1))
              /\ qlist' = Append(qlist, pipeak * Cos2(el))
              /\ ulist' = Append(ulist, pipeak * Sin2(el))
         ELSE /\ obsdata' = Append(obsdata, <<el, 0, 0, FALSE>>)
              /\ elist' = DropLast(Append(elist, el))
              /\ alist' = DropLast(Append(alist, AzOf(nobs + 1)))
              /\ wvmlist' = DropLast(Append(wvmlist, WvmOf(nobs + 1)))
              /\ utlist' = DropLast(Append(utlist, UtOf(nobs + 1)))
              /\ obsnumlist' = DropLast(Append(obsnumlist, ObsnumOf(nobs + 1)))
              /\ UNCHANGED <<qlist, ulist>>
  /\ nobs' = nobs + 1
  /\ \E m \in MapPasses :
       /\ QPixOk(m) /\ UPixOk(m)
       /\ mapdata' = Append(mapdata, m)
       /\ actpixsize0' = FirstPix(m)
  /\ UNCHANGED <<ipenv, pixsize, newpixsize, ipix, stvars, cmvars, script, pc, RETAIN,
                 exitvars, dofit, diam, fitvars, restart, RESTART, obslen>>

\* A pass that a failing command ends with a StarUtilError: before the
\* lists are touched (stage 0), after the five header lists were appended
\* (stage 1, the first aperadd fails), or after qlist was appended too
\* (stage 2, the second aperadd fails)
IP_ObsFail ==
  /\ script = "pol2ip" /\ pc = "obs" /\ nobs < obslen
  /\ \E stage \in 0..2, o \in sky :
       /\ stage > 0 => diam > 0
       /\ IF stage > 0
            THEN /\ elist' = Append(elist, o[1])
                 /\ alist' = Append(alist, AzOf(nobs + 1))
                 /\ wvmlist' = Append(wvmlist, WvmOf(nobs + 1))
                 /\ utlist' = Append(utlist, UtOf(nobs + 1))
                 /\ obsnumlist' = Append(obsnumlist, ObsnumOf(nobs + 1))
            ELSE UNCHANGED <<elist, alist, wvmlist, utlist, obsnumlist>>
       /\ qlist' = IF stage = 2 THEN Append(qlist, o[2]) ELSE qlist
  /\ pc' = "except_SUE"
  /\ UNCHANGED <<ipenv, pxvars, stvars, cmvars, script, RETAIN, exitvars, dofit, diam, nobs, actpixsize0, obsdata,
                 ulist, fitvars, restart, RESTART, obslen>>

\* A pass that ends with the UsageError of a Q map or a U map whose pixel
\* size is not that of the first Q map; the U map is not looked at when the
\* Q map fails the test
IP_ObsPix ==
  /\ script = "pol2ip" /\ pc = "obs" /\ nobs < obslen
  /\ \E m \in MapPasses :
       /\ ~(QPixOk(m) /\ UPixOk(m))
       /\ mapdata' = Append(mapdata, IF QPixOk(m) THEN m
                                     ELSE [m EXCEPT !.umade = FALSE, !.upix = 0])
       /\ actpixsize0' = FirstPix(m)
  /\ pc' = "except_SUE"
  /\ UNCHANGED <<ipenv, pixsize, newpixsize, ipix, stvars, cmvars, script, RETAIN, exitvars,
                 dofit, diam, nobs, obsdata, lists7, fitvars, restart, RESTART, obslen>>

\* OBSLIST is exhausted
IP_ObsEnd ==
  /\ script = "pol2ip" /\ pc = "obs" /\ nobs = obslen
  /\ pc' = "iref"
  /\ UNCHANGED <<ipenv, pxvars, stvars, cmvars, script, RETAIN, exitvars, ipvars>>

\* the pixel sizes the I map can have: sqorst resamples it to PIXSIZE if
\* there is one
IrefPix == IF pixsize # 0 THEN {pixsize} ELSE {4, 8}

\* The I map: its pixel size must be that of the first Q map
IP_Iref ==
  /\ script = "pol2ip" /\ pc = "iref"
  /\ \E actpixsize \in IrefPix :
       /\ ipix' = actpixsize
       /\ IF actpixsize # actpixsize0
            THEN pc' = "except_SUE" /\ ival' = ival
            ELSE pc' = "record" /\ \E v \in IVals : ival' = v
  /\ UNCHANGED <<ipenv, pixsize, newpixsize, mapdata, stvars, cmvars, script, RETAIN, exitvars, dofit, diam, nobs, actpixsize0, obsdata,
                 lists7, elist0, qlist0, ulist0, iter, resx, qrms, urms, restart, RESTART, obslen>>

\* "Record original lists before we reject any points", then "if dofit:"
IP_Record ==
  /\ script = "pol2ip" /\ pc = "record"
  /\ qlist0' = qlist /\ ulist0' = ulist /\ elist0' = elist
  /\ pc' = IF dofit THEN "fit" ELSE "table"
  /\ UNCHANGED <<ipenv, pxvars, stvars, cmvars, script, RETAIN, exitvars, dofit, diam, nobs, actpixsize0, obsdata,
                 lists7, ival, iter, resx, qrms, urms, restart, RESTART, obslen>>

\* "for i in range(0,3)" and the call of minimize
IP_Fit ==
  /\ script = "pol2ip" /\ pc = "fit"
  /\ IF iter < 3
       THEN /\ \E x \in minimize : resx' = x
            /\ pc' = "qrms"
       ELSE /\ pc' = "report"
            /\ UNCHANGED resx
  /\ UNCHANGED <<ipenv, pxvars, stvars, cmvars, script, RETAIN, exitvars, dofit, diam, nobs, actpixsize0, obsdata,
                 lists7, elist0, qlist0, ulist0, ival, iter, qrms, urms, restart, RESTART, obslen>>

\* qrms = resid( True, res.x ): ZeroDivisionError on empty lists
IP_Qrms ==
  /\ script = "pol2ip" /\ pc = "qrms"
  /\ IF Len(elist) = 0
       THEN pc' = "except_other" /\ UNCHANGED qrms
       ELSE pc' = "qclip" /\ qrms' = resid(TRUE, resx)
  /\ UNCHANGED <<ipenv, pxvars, stvars, cmvars, script, RETAIN, exitvars, dofit, diam, nobs, actpixsize0, obsdata,
                 lists7, elist0, qlist0, ulist0, ival, iter, resx, urms, restart, RESTART, obslen>>

\* reject( True, 2*qrms, res.x )
IP_Qclip ==
  /\ script = "pol2ip" /\ pc = "qclip"
  /\ LET new == reject(TRUE, qrms, resx)
     IN  qlist' = new.q /\ ulist' = new.u /\ elist' = new.e
  /\ pc' = "urms"
  /\ UNCHANGED <<ipenv, pxvars, stvars, cmvars, script, RETAIN, exitvars, dofit, diam, nobs, actpixsize0, obsdata,
                 alist, wvmlist, utlist, obsnumlist, fitvars, restart, RESTART, obslen>>

\* urms = resid( False, res.x )
IP_Urms ==
  /\ script = "pol2ip" /\ pc = "urms"
  /\ IF Len(elist) = 0
       THEN pc' = "except_other" /\ UNCHANGED urms
       ELSE pc' = "uclip" /\ urms' = resid(FALSE, resx)
  /\ UNCHANGED <<ipenv, pxvars, stvars, cmvars, script, RETAIN, exitvars, dofit, diam, nobs, actpixsize0, obsdata,
                 lists7, elist0, qlist0, ulist0, ival, iter, resx, qrms, restart, RESTART, obslen>>

\* reject( False, 2*urms, res.x ), and the end of the loop body
IP_Uclip ==
  /\ script = "pol2ip" /\ pc = "uclip"
  /\ LET new == reject(FALSE, urms, resx)
     IN  qlist' = new.q /\ ulist' = new.u /\ elist' = new.e
  /\ iter' = iter + 1
  /\ pc' = "fit"
  /\ UNCHANGED <<ipenv, pxvars, stvars, cmvars, script, RETAIN, exitvars, dofit, diam, nobs, actpixsize0, obsdata,
                 alist, wvmlist, utlist, obsnumlist, elist0, qlist0, ulist0,
                 ival, resx, qrms, urms, restart, RESTART, obslen>>

\* "Display results": A, B, C and the RMS values; qrms/ival is a
\* ZeroDivisionError when ival is zero
IP_Report ==
  /\ script = "pol2ip" /\ pc = "report"
  /\ log' = Append(log, <<"msg", "A B C">>)
  /\ pc' = IF ival = 0 THEN "except_other" ELSE "table"
  /\ UNCHANGED <<ipenv, pxvars, stvars, cmvars, script, RETAIN, retain, ndgdir, adamdir, ipvars>>

\* "if table:" a row for each original observation; p = pi/ival is a
\* ZeroDivisionError when ival is zero
IP_Table ==
  /\ script = "pol2ip" /\ pc = "table"
  /\ \E table \in BOOLEAN :
       pc' = IF table /\ Len(elist0) > 0 /\ ival = 0 THEN "except_other" ELSE "params"
  /\ UNCHANGED <<ipenv, pxvars, stvars, cmvars, script, RETAIN, exitvars, ipvars>>

\* "if retain:" the PARAMS file
IP_Params ==
  /\ script = "pol2ip" /\ pc = "params"
  /\ pc' = "cleanup"
  /\ UNCHANGED <<ipenv, pxvars, stvars, cmvars, script, RETAIN, exitvars, ipvars>>

IP_Cleanup ==
  /\ script = "pol2ip" /\ pc = "cleanup"
  /\ ip_cleanup(<<>>, <<>>)
  /\ pc' = "done"
  /\ UNCHANGED <<ipenv, pxvars, stvars, cmvars, script, RETAIN, ipvars>>

\* A command fails (StarUtilError) or the user interrupts (any other
\* exception) at a step of the try block
IP_Raise ==
  /\ script = "pol2ip" /\ pc \in IP_TryPcs
  /\ \E h \in {"except_SUE", "except_other"} : pc' = h
  /\ UNCHANGED <<ipenv, pxvars, stvars, cmvars, script, RETAIN, exitvars, ipvars>>

\* except starutil.StarUtilError as err: print( err ); cleanup()
IP_ExceptSUE ==
  /\ script = "pol2ip" /\ pc = "except_SUE"
  /\ ip_cleanup(<<PrintErr>>, <<>>)
  /\ pc' = "handled"
  /\ UNCHANGED <<ipenv, pxvars, stvars, cmvars, script, RETAIN, ipvars>>

\* a handler that re-raises at once
IP_ExceptOther_noCleanup ==
  /\ script = "pol2ip" /\ pc = "except_other"
  /\ log' = Append(log, Reraise)
  /\ pc' = "raised"
  /\ UNCHANGED <<ipenv, pxvars, stvars, cmvars, script, RETAIN, retain, ndgdir, adamdir, ipvars>>

\* except: cleanup(); raise
IP_ExceptOther ==
  /\ script = "pol2ip" /\ pc = "except_other"
  /\ ip_cleanup(<<>>, <<Reraise>>)
  /\ pc' = "raised"
  /\ UNCHANGED <<ipenv, pxvars, stvars, cmvars, script, RETAIN, ipvars>>

\* A command fails (StarUtilError) or the user interrupts (any other
\* exception) is IP_Raise; pol2ip without it:
NextIPQuiet ==
  \/ IP_ParSys \/ IP_Obslist \/ IP_Pars \/ IP_Restart \/ IP_Env \/ IP_Conf
  \/ IP_ObsAper \/ IP_ObsPeak \/ IP_ObsFail \/ IP_ObsEnd \/ IP_Iref
  \/ IP_Record \/ IP_Fit \/ IP_Qrms \/ IP_Qclip \/ IP_Urms \/ IP_Uclip
  \/ IP_Report \/ IP_Table \/ IP_Params \/ IP_Cleanup
  \/ IP_ExceptSUE \/ IP_ExceptOther

\* pol2ip when nothing interrupts it and maps may differ in pixel size
NextIPPix == NextIPQuiet \/ IP_ObsPix

NextIP == NextIPPix \/ IP_Raise

\* ============================================================ configmeld
NoneSub == <<"None">>         \* the value None of `subarray'
S4 == {"s4a", "s4b", "s4c", "s4d"}
S8 == {"s8a", "s8b", "s8c", "s8d"}

\* What is found for a config: get_fits_header raises (not an NDF), returns
\* None or returns the SUBARRAY value; provshow fails or prints a text, of
\* which only the subarray names in it matter.
NotNdf == [fits |-> "raise", subarray |-> NoneSub, provok |-> TRUE, text |-> {}]
WithHeader(sub) == [fits |-> "value", subarray |-> sub, provok |-> TRUE, text |-> {}]
WithProv(t) == [fits |-> "none", subarray |-> NoneSub, provok |-> TRUE, text |-> t]
ProvFails == [fits |-> "none", subarray |-> NoneSub, provok |-> FALSE, text |-> {}]

SubarrayVals == {<<"s", "4", "a">>, <<"s", "8", "b">>, <<"s", "9", "a">>}
ProvTexts == {{}, {"s4c"}, {"s8d"}, {"s4a", "s8a"}}
CfgKinds == {NotNdf, ProvFails} \cup {WithHeader(sub) : sub \in SubarrayVals}
              \cup {WithProv(t) : t \in ProvTexts}

\* the try block around get_fits_header( config, "SUBARRAY" ); `old' is the
\* value `subarray' had before
detect(w, old) ==
  IF w.fits = "raise" THEN [isndf |-> FALSE, subarray |-> old]
  ELSE IF w.fits = "value" THEN [isndf |-> TRUE, subarray |-> w.subarray]
  ELSE IF ~w.provok THEN [isndf |-> FALSE, subarray |-> NoneSub]
  ELSE [isndf |-> TRUE,
        subarray |-> IF w.text \cap S4 # {} THEN <<"s", "4">>
                     ELSE IF w.text \cap S8 # {} THEN <<"s", "8">>
                     ELSE NoneSub]

\* subarray[1:2]
Slice12(sub) == IF Len(sub) >= 2 THEN sub[2] ELSE ""

\* "if isndf: ... else: waveband = None"; "raise" is InvalidParameterError
band(isndf, sub) ==
  IF ~isndf THEN None
  ELSE IF sub = NoneSub THEN None
  ELSE IF Slice12(sub) = "4" THEN "450"
  ELSE IF Slice12(sub) = "8" THEN "850"
  ELSE "raise"

MsgCannot(k) == <<"msg", "Cannot determine the SCUBA-2 waveband", k>>
MsgDifferent == <<"msg", "Supplied NDFs are for different wavebands">>
MsgShowing(wb) == <<"msg", "Showing um values", wb>>
MsgShowingFrom(wb, k) == <<"msg", "Showing um values from", wb, k>>

\* a chain that gives config2 the waveband of config1 whenever they differ
resolve_shared(w1, w2, wb) ==
  IF w1 # None /\ w2 = None THEN [w1 |-> w1, w2 |-> w1, read |-> FALSE, warn |-> FALSE]
  ELSE IF w1 = None /\ w2 # None THEN [w1 |-> w2, w2 |-> w2, read |-> FALSE, warn |-> FALSE]
  ELSE IF w1 = None /\ w2 = None THEN [w1 |-> wb, w2 |-> wb, read |-> TRUE, warn |-> FALSE]
  ELSE [w1 |-> w1, w2 |-> w1, read |-> FALSE, warn |-> w1 # w2]

\* a chain that leaves a config without waveband when only config2 has one
resolve_first(w1, w2, wb) ==
  IF w1 # None /\ w2 = None THEN [w1 |-> w1, w2 |-> w1, read |-> FALSE, warn |-> FALSE]
  ELSE IF w1 = None /\ w2 = None THEN [w1 |-> wb, w2 |-> wb, read |-> TRUE, warn |-> FALSE]
  ELSE [w1 |-> w1, w2 |-> w2, read |-> FALSE, warn |-> w1 # w2 /\ w1 # None]

\* a chain that asks for WAVEBAND whenever a config has no waveband
resolve_ask(w1, w2, wb) ==
  IF w1 = None \/ w2 = None
    THEN [w1 |-> IF w1 = None THEN wb ELSE w1,
          w2 |-> IF w2 = None THEN wb ELSE w2, read |-> TRUE, warn |-> FALSE]
    ELSE [w1 |-> w1, w2 |-> w2, read |-> FALSE, warn |-> w1 # w2]

\* the if/elif chain that settles waveband1 and waveband2
resolve(w1, w2, wb) ==
  IF w1 # None /\ w2 = None THEN [w1 |-> w1, w2 |-> w1, read |-> FALSE, warn |-> FALSE]
  ELSE IF w1 = None /\ w2 # None THEN [w1 |-> w2, w2 |-> w2, read |-> FALSE, warn |-> FALSE]
  ELSE IF w1 = None /\ w2 = None THEN [w1 |-> wb, w2 |-> wb, read |-> TRUE, warn |-> FALSE]
  ELSE IF w1 # w2 THEN [w1 |-> w1, w2 |-> w2, read |-> FALSE, warn |-> TRUE]
  ELSE [w1 |-> w1, w2 |-> w2, read |-> FALSE, warn |-> FALSE]

\* the 850 um selection whatever the waveband
selectFor_850(wb) == "'850=1,450=0'"

\* the waveband selection specifier
selectFor(wb) == IF wb = "450" THEN "'850=0,450=1'" ELSE "'850=1,450=0'"

\* configmeld.cleanup(): the first os.remove that fails ends it silently
cm_cleanup(pre, post) ==
  /\ tmp1' = FALSE
  /\ tmp2' = IF tmp1 THEN FALSE ELSE tmp2
  /\ IF tmp1 /\ tmp2
       THEN /\ adamdir' = FALSE
            /\ log' = log \o pre \o <<CallCleanup, ParSysCleanup>> \o post
       ELSE /\ adamdir' = adamdir
            /\ log' = log \o pre \o <<CallCleanup>> \o post
  /\ UNCHANGED <<retain, ndgdir>>

cmfixed == <<cfg1, cfg2, WAVEBAND>>
CM_TryPcs == {"parsys", "defaults", "config1", "config2", "resolve", "report",
              "list1", "write1", "list2", "write2", "meld", "cleanup"}

CM_ParSys ==
  /\ script = "configmeld" /\ pc = "parsys"
  /\ pc' = "defaults"
  /\ UNCHANGED <<stvars, script, RETAIN, exitvars, ipvars, cmvars>>

CM_Defaults ==
  /\ script = "configmeld" /\ pc = "defaults"
  /\ pc' = "config1"
  /\ UNCHANGED <<stvars, script, RETAIN, exitvars, ipvars, cmvars>>

\* CONFIG1: is it an NDF, and of which waveband
CM_Config1 ==
  /\ script = "configmeld" /\ pc = "config1"
  /\ LET d == detect(cfg1, subarray)
         b == band(d.isndf, d.subarray)
     IN  /\ isndf1' = d.isndf
         /\ subarray' = d.subarray
         /\ waveband1' = IF b = "raise" THEN waveband1 ELSE b
         /\ log' = IF d.isndf /\ d.subarray = NoneSub
                     THEN Append(log, MsgCannot("config1")) ELSE log
         /\ pc' = IF b = "raise" THEN "except_SUE" ELSE "config2"
  /\ UNCHANGED <<stvars, script, RETAIN, retain, ndgdir, adamdir, ipvars, cmfixed,
                 wavebandRead, isndf2, waveband2, select1, select2, tmp1, tmp2>>

\* CONFIG2: the same
CM_Config2 ==
  /\ script = "configmeld" /\ pc = "config2"
  /\ LET d == detect(cfg2, subarray)
         b == band(d.isndf, d.subarray)
     IN  /\ isndf2' = d.isndf
         /\ subarray' = d.subarray
         /\ waveband2' = IF b = "raise" THEN waveband2 ELSE b
         /\ log' = IF d.isndf /\ d.subarray = NoneSub
                     THEN Append(log, MsgCannot("config2")) ELSE log
         /\ pc' = IF b = "raise" THEN "except_SUE" ELSE "resolve"
  /\ UNCHANGED <<stvars, script, RETAIN, retain, ndgdir, adamdir, ipvars, cmfixed,
                 wavebandRead, isndf1, waveband1, select1, select2, tmp1, tmp2>>

CM_Resolve ==
  /\ script = "configmeld" /\ pc = "resolve"
  /\ LET r == resolve(waveband1, waveband2, WAVEBAND)
     IN  /\ waveband1' = r.w1
         /\ waveband2' = r.w2
         /\ wavebandRead' = (wavebandRead \/ r.read)
         /\ log' = IF r.warn THEN Append(log, MsgDifferent) ELSE log
  /\ pc' = "report"
  /\ UNCHANGED <<stvars, script, RETAIN, retain, ndgdir, adamdir, ipvars, cmfixed,
                 isndf1, isndf2, subarray, select1, select2, tmp1, tmp2>>

\* "Tell the user what wavebands are being used"
CM_Report ==
  /\ script = "configmeld" /\ pc = "report"
  /\ log' = IF waveband1 = waveband2
              THEN Append(log, MsgShowing(waveband1))
              ELSE log \o <<MsgShowingFrom(waveband1, "config1"),
                            MsgShowingFrom(waveband2, "config2")>>
  /\ pc' = "list1"
  /\ UNCHANGED <<stvars, script, RETAIN, retain, ndgdir, adamdir, ipvars, cmvars>>

\* the selection specifier for config1 and its listing by configecho
CM_List1 ==
  /\ script = "configmeld" /\ pc = "list1"
  /\ select1' = selectFor(waveband1)
  /\ pc' = "write1"
  /\ UNCHANGED <<stvars, script, RETAIN, exitvars, ipvars, cmfixed, wavebandRead,
                 isndf1, isndf2, subarray, waveband1, waveband2, select2,
                 tmp1, tmp2>>

CM_Write1 ==
  /\ script = "configmeld" /\ pc = "write1"
  /\ tmp1' = TRUE
  /\ pc' = "list2"
  /\ UNCHANGED <<stvars, script, RETAIN, exitvars, ipvars, cmfixed, wavebandRead,
                 isndf1, isndf2, subarray, waveband1, waveband2, select1,
                 select2, tmp2>>

CM_List2 ==
  /\ script = "configmeld" /\ pc = "list2"
  /\ select2' = selectFor(waveband2)
  /\ pc' = "write2"
  /\ UNCHANGED <<stvars, script, RETAIN, exitvars, ipvars, cmfixed, wavebandRead,
                 isndf1, isndf2, subarray, waveband1, waveband2, select1,
                 tmp1, tmp2>>

CM_Write2 ==
  /\ script = "configmeld" /\ pc = "write2"
  /\ tmp2' = TRUE
  /\ pc' = "meld"
  /\ UNCHANGED <<stvars, script, RETAIN, exitvars, ipvars, cmfixed, wavebandRead,
                 isndf1, isndf2, subarray, waveband1, waveband2, select1,
                 select2, tmp1>>

CM_Meld ==
  /\ script = "configmeld" /\ pc = "meld"
  /\ pc' = "cleanup"
  /\ UNCHANGED <<stvars, script, RETAIN, exitvars, ipvars, cmvars>>

cmkept == <<cmfixed, wavebandRead, isndf1, isndf2, subarray, waveband1,
            waveband2, select1, select2>>

CM_Cleanup ==
  /\ script = "configmeld" /\ pc = "cleanup"
  /\ cm_cleanup(<<>>, <<>>)
  /\ pc' = "done"
  /\ UNCHANGED <<stvars, script, RETAIN, ipvars, cmkept>>

CM_Raise ==
  /\ script = "configmeld" /\ pc \in CM_TryPcs
  /\ \E h \in {"except_SUE", "except_other"} : pc' = h
  /\ UNCHANGED <<stvars, script, RETAIN, exitvars, ipvars, cmvars>>

\* except starutil.StarUtilError as err: print( err ); cleanup()
CM_ExceptSUE ==
  /\ script = "configmeld" /\ pc = "except_SUE"
  /\ cm_cleanup(<<PrintErr>>, <<>>)
  /\ pc' = "handled"
  /\ UNCHANGED <<stvars, script, RETAIN, ipvars, cmkept>>

\* except: cleanup(); raise
CM_ExceptOther ==
  /\ script = "configmeld" /\ pc = "except_other"
  /\ cm_cleanup(<<>>, <<Reraise>>)
  /\ pc' = "raised"
  /\ UNCHANGED <<stvars, script, RETAIN, ipvars, cmkept>>

NextCM ==
  \/ CM_ParSys \/ CM_Defaults \/ CM_Config1 \/ CM_Config2 \/ CM_Resolve
  \/ CM_Report \/ CM_List1 \/ CM_Write1 \/ CM_List2 \/ CM_Write2 \/ CM_Meld
  \/ CM_Cleanup \/ CM_Raise \/ CM_ExceptSUE \/ CM_ExceptOther

\* ============================================================= pol2stack
\* pol2stack.cleanup()
st_cleanup(pre, post) ==
  /\ adamdir' = FALSE
  /\ IF retain
       THEN /\ log' = log \o pre \o <<CallCleanup, ParSysCleanup, MsgRetaining>> \o post
            /\ ndgdir' = ndgdir
       ELSE /\ log' = log \o pre \o <<CallCleanup, ParSysCleanup, NDGCleanup>> \o post
            /\ ndgdir' = FALSE
  /\ UNCHANGED retain

ST_TryPcs == {"parsys", "in", "inputs", "pars", "retain", "debias", "ipol2",
              "fcf", "process", "cleanup"}

ST_ParSys ==
  /\ script = "pol2stack" /\ pc = "parsys"
  /\ pc' = "in"
  /\ UNCHANGED <<stvars, script, RETAIN, exitvars, ipvars, cmvars>>

\* IN: container files are filtered into Q, U and I groups; without IN the
\* groups are INQ, INU, INI and have to be in pW
ST_In ==
  /\ script = "pol2stack" /\ pc = "in"
  /\ \E inqui \in BOOLEAN : pc' = IF inqui THEN "pars" ELSE "inputs"
  /\ UNCHANGED <<stvars, script, RETAIN, exitvars, ipvars, cmvars>>

ST_Inputs ==
  /\ script = "pol2stack" /\ pc = "inputs"
  /\ \E allpW \in BOOLEAN : pc' = IF allpW THEN "pars" ELSE "except_SUE"
  /\ UNCHANGED <<stvars, script, RETAIN, exitvars, ipvars, cmvars>>

\* PI, QUI, CAT
ST_Pars ==
  /\ script = "pol2stack" /\ pc = "pars"
  /\ pc' = "retain"
  /\ UNCHANGED <<stvars, script, RETAIN, exitvars, ipvars, cmvars>>

ST_Retain ==
  /\ script = "pol2stack" /\ pc = "retain"
  /\ retain' = RETAIN
  /\ pc' = "debias"
  /\ UNCHANGED <<stvars, script, RETAIN, log, ndgdir, adamdir, ipvars, cmvars>>

\* DEBIAS, JY
ST_Debias ==
  /\ script = "pol2stack" /\ pc = "debias"
  /\ pc' = "ipol2"
  /\ UNCHANGED <<stvars, script, RETAIN, exitvars, ipvars, cmvars>>

\* get_fits_header( sdf, "INBEAM" ): None without such a header, else its
\* value, of which only the words in it matter
NoHeader == {"None"}
InbeamVals == {{"pol"}, {"fts2"}, {}, NoHeader}

\* "for sdf in iin:" from the i-th I map on, ipol2 being ip; "pol" in None
\* is a TypeError, which ends the loop with err
RECURSIVE scan(_, _, _)
scan(maps, i, ip) ==
  IF i > Len(maps) THEN [ipol2 |-> ip, err |-> FALSE]
  ELSE IF maps[i] = NoHeader THEN [ipol2 |-> ip, err |-> TRUE]
  ELSE IF "pol" \in maps[i]
    THEN IF ip = "None" THEN scan(maps, i + 1, "True")
         ELSE IF ip = "False" THEN [ipol2 |-> "None", err |-> FALSE]
         ELSE scan(maps, i + 1, ip)
    ELSE IF ip = "None" THEN scan(maps, i + 1, "False")
         ELSE IF ip = "True" THEN [ipol2 |-> "None", err |-> FALSE]
         ELSE scan(maps, i + 1, ip)

\* "See if the I maps were made from POL2 data": a mixture is an
\* InvalidParameterError
ST_Ipol2 ==
  /\ script = "pol2stack" /\ pc = "ipol2"
  /\ LET r == scan(iin, 1, "None")
     IN  /\ ipol2' = r.ipol2
         /\ pc' = IF r.err THEN "except_other"
                  ELSE IF r.ipol2 = "None" THEN "except_SUE" ELSE "fcf"
  /\ UNCHANGED <<script, RETAIN, exitvars, ipvars, cmvars, iin, FILTER, fcf_qu, fcf_i>>

\* The FILTER header: NoFilter without a value (NoValueError), else a
\* string, which is a number given in tenths or is not a number
NoFilter == [isnum |-> FALSE, tenths |-> 0, there |-> FALSE]
FilterNum(t) == [isnum |-> TRUE, tenths |-> t, there |-> TRUE]
FilterText == [isnum |-> FALSE, tenths |-> 0, there |-> TRUE]
FilterVals == {NoFilter, FilterText, FilterNum(4500), FilterNum(8500),
               FilterNum(8507), FilterNum(6000)}

\* int( float( header ) ) of a number that is not negative
IntFloat(h) == h.tenths \div 10

\* a variant with the non-POL2 FCFs of the two filters exchanged
fcf_swapped(filter, ip) ==
  IF filter = 450 THEN <<962, IF ip = "True" THEN 962 ELSE 537>>
  ELSE IF filter = 850 THEN <<725, IF ip = "True" THEN 725 ELSE 491>>
  ELSE <<0, 0>>

\* the FCFs of a filter, (0, 0) standing for InvalidParameterError
fcf(filter, ip) ==
  IF filter = 450 THEN <<962, IF ip = "True" THEN 962 ELSE 491>>
  ELSE IF filter = 850 THEN <<725, IF ip = "True" THEN 725 ELSE 537>>
  ELSE <<0, 0>>

\* "Determine the waveband and get the corresponding FCF values"; float()
\* of a string that is not a number is a ValueError
ST_Fcf ==
  /\ script = "pol2stack" /\ pc = "fcf"
  /\ IF FILTER.there /\ ~FILTER.isnum
       THEN pc' = "except_other" /\ UNCHANGED <<fcf_qu, fcf_i>>
       ELSE LET filter == IF FILTER.there THEN IntFloat(FILTER) ELSE 850
                f == fcf(filter, ipol2)
            IN  IF f = <<0, 0>>
                  THEN pc' = "except_SUE" /\ UNCHANGED <<fcf_qu, fcf_i>>
                  ELSE pc' = "process" /\ fcf_qu' = f[1] /\ fcf_i' = f[2]
  /\ UNCHANGED <<script, RETAIN, exitvars, ipvars, cmvars, iin, FILTER, ipol2>>

\* the commands that trim, rotate, mosaic, scale and make the catalogue
ST_Process ==
  /\ script = "pol2stack" /\ pc = "process"
  /\ pc' = "cleanup"
  /\ UNCHANGED <<stvars, script, RETAIN, exitvars, ipvars, cmvars>>

ST_Cleanup ==
  /\ script = "pol2stack" /\ pc = "cleanup"
  /\ st_cleanup(<<>>, <<>>)
  /\ pc' = "done"
  /\ UNCHANGED <<stvars, script, RETAIN, ipvars, cmvars>>

ST_Raise ==
  /\ script = "pol2stack" /\ pc \in ST_TryPcs
  /\ \E h \in {"except_SUE", "except_other"} : pc' = h
  /\ UNCHANGED <<stvars, script, RETAIN, exitvars, ipvars, cmvars>>

ST_ExceptSUE ==
  /\ script = "pol2stack" /\ pc = "except_SUE"
  /\ st_cleanup(<<PrintErr>>, <<>>)
  /\ pc' = "handled"
  /\ UNCHANGED <<stvars, script, RETAIN, ipvars, cmvars>>

ST_ExceptOther ==
  /\ script = "pol2stack" /\ pc = "except_other"
  /\ st_cleanup(<<>>, <<Reraise>>)
  /\ pc' = "raised"
  /\ UNCHANGED <<stvars, script, RETAIN, ipvars, cmvars>>

\* pol2stack when nothing interrupts it
NextSTQuiet ==
  \/ ST_ParSys \/ ST_In \/ ST_Inputs \/ ST_Pars \/ ST_Retain \/ ST_Debias
  \/ ST_Ipol2 \/ ST_Fcf \/ ST_Process \/ ST_Cleanup
  \/ ST_ExceptSUE \/ ST_ExceptOther

NextST == NextSTQuiet \/ ST_Raise

\* ============================================================== tounimap
MsgPremature == <<"print", "unimap ended prematurely so intermediate files are being retained">>

\* tounimap.cleanup()
um_cleanup ==
  /\ adamdir' = FALSE
  /\ IF retain
       THEN /\ log' = log \o <<CallCleanup, ParSysCleanup, MsgRetaining>>
            /\ ndgdir' = ndgdir
       ELSE /\ log' = log \o <<CallCleanup, ParSysCleanup, NDGCleanup>>
            /\ ndgdir' = FALSE
  /\ UNCHANGED retain

UM_TryPcs == {"parsys", "in", "retain", "erase", "sc2concat", "makemap",
              "chunks", "cleanup"}

UM_ParSys ==
  /\ script = "tounimap" /\ pc = "parsys"
  /\ pc' = "in"
  /\ UNCHANGED <<stvars, script, RETAIN, exitvars, ipvars, cmvars>>

UM_In ==
  /\ script = "tounimap" /\ pc = "in"
  /\ pc' = "retain"
  /\ UNCHANGED <<stvars, script, RETAIN, exitvars, ipvars, cmvars>>

UM_Retain ==
  /\ script = "tounimap" /\ pc = "retain"
  /\ retain' = RETAIN
  /\ pc' = "erase"
  /\ UNCHANGED <<stvars, script, RETAIN, log, ndgdir, adamdir, ipvars, cmvars>>

\* erase the cleaned data and pointing NDFs of previous runs
UM_Erase ==
  /\ script = "tounimap" /\ pc = "erase"
  /\ pc' = "sc2concat"
  /\ UNCHANGED <<stvars, script, RETAIN, exitvars, ipvars, cmvars>>

UM_Sc2concat ==
  /\ script = "tounimap" /\ pc = "sc2concat"
  /\ pc' = "makemap"
  /\ UNCHANGED <<stvars, script, RETAIN, exitvars, ipvars, cmvars>>

UM_Makemap ==
  /\ script = "tounimap" /\ pc = "makemap"
  /\ pc' = "chunks"
  /\ UNCHANGED <<stvars, script, RETAIN, exitvars, ipvars, cmvars>>

\* the loop over the NDFs of cleaned data
UM_Chunks ==
  /\ script = "tounimap" /\ pc = "chunks"
  /\ pc' = "cleanup"
  /\ UNCHANGED <<stvars, script, RETAIN, exitvars, ipvars, cmvars>>

UM_Cleanup ==
  /\ script = "tounimap" /\ pc = "cleanup"
  /\ um_cleanup
  /\ pc' = "done"
  /\ UNCHANGED <<stvars, script, RETAIN, ipvars, cmvars>>

UM_Raise ==
  /\ script = "tounimap" /\ pc \in UM_TryPcs
  /\ \E h \in {"except_SUE", "except_other"} : pc' = h
  /\ UNCHANGED <<stvars, script, RETAIN, exitvars, ipvars, cmvars>>

\* a handler that cleans up as the other scripts do
UM_ExceptSUE_cleanup ==
  /\ script = "tounimap" /\ pc = "except_SUE"
  /\ adamdir' = FALSE
  /\ ndgdir' = (retain /\ ndgdir)
  /\ log' = log \o <<PrintErr, MsgPremature>>
  /\ pc' = "handled"
  /\ UNCHANGED <<stvars, script, RETAIN, retain, ipvars, cmvars>>

\* except starutil.StarUtilError as err: print( err ); print( "...retained" )
UM_ExceptSUE ==
  /\ script = "tounimap" /\ pc = "except_SUE"
  /\ log' = log \o <<PrintErr, MsgPremature>>
  /\ pc' = "handled"
  /\ UNCHANGED <<stvars, script, RETAIN, retain, ndgdir, adamdir, ipvars, cmvars>>

\* except: print( "...retained" ); raise
UM_ExceptOther ==
  /\ script = "tounimap" /\ pc = "except_other"
  /\ log' = log \o <<MsgPremature, Reraise>>
  /\ pc' = "raised"
  /\ UNCHANGED <<stvars, script, RETAIN, retain, ndgdir, adamdir, ipvars, cmvars>>

NextUM ==
  \/ UM_ParSys \/ UM_In \/ UM_Retain \/ UM_Erase \/ UM_Sc2concat
  \/ UM_Makemap \/ UM_Chunks \/ UM_Cleanup \/ UM_Raise \/ UM_ExceptSUE
  \/ UM_ExceptOther

\* ------------------------------------------------------------------ Init
\* the globals of the scripts as their first lines leave them
InitGlobals ==
  /\ pc = "parsys"
  /\ log = <<>>
  /\ retain = FALSE
  /\ restart = None
  /\ ndgdir = TRUE
  /\ adamdir = TRUE
  /\ diam = 40
  /\ nobs = 0
  /\ actpixsize0 = 0
  /\ obsdata = <<>>
  /\ elist = <<>> /\ alist = <<>> /\ wvmlist = <<>> /\ utlist = <<>>
  /\ obsnumlist = <<>> /\ qlist = <<>> /\ ulist = <<>>
  /\ elist0 = <<>> /\ qlist0 = <<>> /\ ulist0 = <<>>
  /\ ival = 0
  /\ iter = 0
  /\ resx = <<0, 0, 0>>
  /\ qrms = [ss |-> 0, n |-> 0]
  /\ urms = [ss |-> 0, n |-> 0]
  /\ wavebandRead = FALSE
  /\ isndf1 = FALSE /\ isndf2 = FALSE
  /\ subarray = NoneSub
  /\ waveband1 = None /\ waveband2 = None
  /\ select1 = "" /\ select2 = ""
  /\ tmp1 = FALSE /\ tmp2 = FALSE
  /\ ipol2 = "None" /\ fcf_qu = 0 /\ fcf_i = 0
  /\ pixsize = 0 /\ newpixsize = FALSE /\ mapdata = <<>> /\ ipix = 0

\* pol2ip in a fresh directory with no PIXSIZE: every map is made, at
\* makemap's default pixel size
FreshMaps ==
  /\ pixset = {4} /\ mapfiles = {<<FALSE, FALSE>>} /\ PIXSIZE = 0 /\ parfile = -1

\* what a script does not look at
NoIPInput ==
  RESTART = None /\ obslen = 0 /\ dofit = TRUE /\ sky = ObsVals /\ FreshMaps
NoCMInput == cfg1 = NotNdf /\ cfg2 = NotNdf /\ WAVEBAND = "850"
NoSTInput == iin = <<{"pol"}>> /\ FILTER = NoFilter

\* the groups of I maps
RECURSIVE SeqsUpTo(_, _)
SeqsUpTo(S, n) ==
  IF n = 0 THEN {<<>>}
  ELSE LET shorter == SeqsUpTo(S, n - 1)
       IN  shorter \cup {Append(q, x) : q \in {r \in shorter : Len(r) = n - 1}, x \in S}
IinVals == SeqsUpTo(InbeamVals, MaxMaps) \ {<<>>}

\* pol2ip alone, run without RESTART and with RETAIN left at its default,
\* every command other than the ones the observation loop survives working
InitIP ==
  /\ script = "pol2ip"
  /\ RETAIN = FALSE
  /\ RESTART = None
  /\ obslen \in 0..MaxObs
  /\ dofit \in BOOLEAN
  /\ sky = ObsVals /\ FreshMaps
  /\ NoCMInput /\ NoSTInput
  /\ InitGlobals

SpecIP == InitIP /\ [][NextIPQuiet]_vars

\* configmeld alone
InitCM ==
  /\ script = "configmeld"
  /\ RETAIN = FALSE
  /\ cfg1 \in CfgKinds /\ cfg2 \in CfgKinds
  /\ WAVEBAND \in {"450", "850"}
  /\ NoIPInput /\ NoSTInput
  /\ InitGlobals

SpecCM == InitCM /\ [][NextCM]_vars

\* pol2ip alone, on data without noise: I = 1 and the polarisation is
\* exactly the model's for some a, b and c
Truths == {x0, <<1, 0, 0>>, <<0, 1, -1>>}
ZeroNoise(t) ==
  {<<el, (t[1] + t[2]*radians(el) + t[3]*radians(el)*radians(el)) * Cos2(el),
         (t[1] + t[2]*radians(el) + t[3]*radians(el)*radians(el)) * Sin2(el)>> :
     el \in {0, 45, 90}}

InitZN ==
  /\ script = "pol2ip"
  /\ RETAIN = FALSE
  /\ RESTART = None
  /\ obslen \in 0..MaxObsZN
  /\ dofit \in BOOLEAN
  /\ \E t \in Truths : sky = ZeroNoise(t)
  /\ FreshMaps
  /\ NoCMInput /\ NoSTInput
  /\ InitGlobals

SpecZN == InitZN /\ [][NextIPQuiet]_vars

\* pol2ip alone, with or without RESTART and PIXSIZE, in a directory that
\* may hold maps of an earlier run
InitPX ==
  /\ script = "pol2ip"
  /\ RETAIN = FALSE
  /\ RESTART \in {None, "olddir"}
  /\ obslen \in 0..MaxObsPix
  /\ dofit \in BOOLEAN
  /\ sky = {<<45, 0, 1>>}
  /\ pixset = {4, 8}
  /\ \E f \in BOOLEAN \X BOOLEAN : mapfiles = {f}
  /\ PIXSIZE \in {0, 4, 8}
  /\ parfile \in IF RESTART = None THEN {-1} ELSE {-1, 0, 4, 8}
  /\ NoCMInput /\ NoSTInput
  /\ InitGlobals

SpecPX == InitPX /\ [][NextIPPix]_vars

\* pol2stack alone
InitST ==
  /\ script = "pol2stack"
  /\ RETAIN \in BOOLEAN
  /\ iin \in IinVals
  /\ FILTER \in FilterVals
  /\ NoIPInput /\ NoCMInput
  /\ InitGlobals

SpecST == InitST /\ [][NextSTQuiet]_vars

\* any of the four scripts
Init ==
  /\ InitGlobals
  /\ RETAIN \in BOOLEAN
  /\ \/ /\ script = "pol2ip"
        /\ RESTART \in {None, "olddir", "nodir"}
        /\ obslen \in 0..MaxObsAll
        /\ dofit \in BOOLEAN
        /\ sky = ObsVals
        /\ pixset = {4, 8} /\ mapfiles = {<<FALSE, FALSE>>}
        /\ PIXSIZE = 0 /\ parfile = -1
        /\ NoCMInput /\ NoSTInput
     \/ /\ script = "configmeld"
        /\ cfg1 \in CfgKinds /\ cfg2 \in CfgKinds
        /\ WAVEBAND \in {"450", "850"}
        /\ NoIPInput /\ NoSTInput
     \/ /\ script = "pol2stack"
        /\ iin \in IinVals
        /\ FILTER \in FilterVals
        /\ NoIPInput /\ NoCMInput
     \/ /\ script = "tounimap"
        /\ NoIPInput /\ NoCMInput /\ NoSTInput

Next == NextIP \/ NextCM \/ NextST \/ NextUM

Spec == Init /\ [][Next]_vars

\* ====================================================== pol2ip: the lists
Zip3(e, q, u) == [i \in 1..Len(e) |-> <<e[i], q[i], u[i]>>]

\* s is t with some entries left out, the order kept
RECURSIVE IsSubSeq(_, _)
IsSubSeq(s, t) ==
  IF Len(s) = 0 THEN TRUE
  ELSE IF Len(t) = 0 THEN FALSE
  ELSE IF Head(s) = Head(t) THEN IsSubSeq(Tail(s), Tail(t))
  ELSE IsSubSeq(s, Tail(t))

SameLen3(e, q, u) == Len(e) = Len(q) /\ Len(q) = Len(u)

\* alist, wvmlist, utlist and obsnumlist have the length of e, and index i of
\* all of them and of e, q, u is one observation that stored its Q and U
Aligned7(e, q, u) ==
  /\ SameLen3(e, q, u)
  /\ Len(alist) = Len(e) /\ Len(wvmlist) = Len(e)
  /\ Len(utlist) = Len(e) /\ Len(obsnumlist) = Len(e)
  /\ \A i \in 1..Len(e) :
       LET o == obsnumlist[i]
       IN  /\ o \in 1..Len(obsdata)
           /\ obsdata[o] = <<e[i], q[i], u[i], TRUE>>
           /\ alist[i] = AzOf(o) /\ wvmlist[i] = WvmOf(o) /\ utlist[i] = UtOf(o)
  /\ \A i, j \in 1..Len(e) : i < j => obsnumlist[i] < obsnumlist[j]

IP_LoopPcs == {"obs", "iref", "record"}
IP_FitPcs == {"fit", "qrms", "qclip", "urms", "uclip"}
IP_AfterRecord == IP_FitPcs \cup {"report", "table", "params", "cleanup"}

\* some call of reject() has returned
Rejected == pc \in {"urms", "uclip"} \/ (pc \in IP_AfterRecord /\ iter > 0)

\* C2 as stated: after each observation and after every call of reject() the
\* seven per-observation lists have one length and are index-aligned.
C2_SevenAligned ==
  (script = "pol2ip" /\ (pc \in IP_LoopPcs \/ pc \in IP_AfterRecord))
    => Aligned7(elist, qlist, ulist)

\* C2 amended: after each observation the seven lists are aligned; reject()
\* rebuilds elist, qlist and ulist only, which stay an order-preserving
\* selection of the recorded originals, while alist, wvmlist, utlist and
\* obsnumlist keep their contents, aligned with elist0, qlist0, ulist0.
C2_Amended ==
  /\ (script = "pol2ip" /\ pc \in IP_LoopPcs) => Aligned7(elist, qlist, ulist)
  /\ (script = "pol2ip" /\ pc \in IP_AfterRecord) =>
       /\ Aligned7(elist0, qlist0, ulist0)
       /\ SameLen3(elist, qlist, ulist)
       /\ IsSubSeq(Zip3(elist, qlist, ulist), Zip3(elist0, qlist0, ulist0))

\* a call of reject() dropped some point and kept another, after a beamfit
\* failure or not
C2_Witness ==
  /\ script = "pol2ip" /\ Rejected
  /\ Len(elist) > 0 /\ Len(elist) < Len(alist)

\* C3: after any rejection round elist, qlist and ulist have one length, and
\* each index holds the elevation, Q and U of one original observation.
C3_TriplesAligned ==
  (script = "pol2ip" /\ Rejected) =>
     /\ SameLen3(elist, qlist, ulist)
     /\ IsSubSeq(Zip3(elist, qlist, ulist), Zip3(elist0, qlist0, ulist0))

C3_Witness ==
  /\ script = "pol2ip" /\ pc = "fit" /\ iter = 1
  /\ Len(elist) > 1 /\ Len(elist) < Len(elist0)

\* ====================================================== pol2ip: the clips
Abs(d) == IF d < 0 THEN -d ELSE d

\* |d| <= 2*rms
AtMost(d, rms) == rms.n * d * d <= 4 * rms.ss

RECURSIVE keepAtMost(_, _, _, _)
keepAtMost(useq, rms, x, i) ==
  IF i = 0 THEN <<>>
  ELSE IF AtMost(dqu(useq, i, x), rms)
         THEN Append(keepAtMost(useq, rms, x, i - 1), i)
         ELSE keepAtMost(useq, rms, x, i - 1)

\* C4: a clip drops a point if and only if the absolute value of its
\* residual exceeds twice the RMS of that clip; a point at or below twice the
\* RMS is kept.
C4_DropIffAbove ==
  [][ /\ (script = "pol2ip" /\ pc = "qclip") =>
           elist' = Pick(elist, keepAtMost(TRUE, qrms, resx, Len(elist)))
      /\ (script = "pol2ip" /\ pc = "uclip") =>
           elist' = Pick(elist, keepAtMost(FALSE, urms, resx, Len(elist)))
    ]_vars

\* C5: once entered, the fit loop is left only after its third round, to
\* report A, B and C.
C5_ThreeRounds ==
  [][ (script = "pol2ip" /\ pc \in IP_FitPcs /\ pc' \notin IP_FitPcs)
        => (pc' = "report" /\ iter = 3) ]_vars

\* the residuals of the original lists from the fit in resx
dQ0(k) == model2(elist0[k], resx)[1] - qlist0[k]
dU0(k) == model2(elist0[k], resx)[2] - ulist0[k]

Without(s, j) == SubSeq(s, 1, j - 1) \o SubSeq(s, j + 1, Len(s))

OnlyOutlier(j) ==
  /\ Len(elist0) >= 4
  /\ dQ0(j) # 0
  /\ \A k \in 1..Len(elist0) : k # j => dQ0(k) = 0

\* the U residual of a triple <<elevation, Q, U>> is below twice urms
UBelow(t) ==
  LET d == model2(t[1], resx)[2] - t[3]
  IN  urms.n * d * d < 4 * urms.ss

IsNdf(w) == w.fits # "raise"

\* the waveband that the SUBARRAY header of an NDF, or else the subarray
\* names in its provenance, stand for
NdfBand(w) ==
  IF w.fits = "value"
    THEN IF w.subarray[2] = "4" THEN "450"
         ELSE IF w.subarray[2] = "8" THEN "850" ELSE "unexpected"
  ELSE IF w.fits = "none" /\ w.provok
    THEN IF w.text \cap {"s4a", "s4b", "s4c", "s4d"} # {}
           THEN "450"
         ELSE IF w.text \cap {"s8a", "s8b", "s8c", "s8d"} # {} THEN "850"
         ELSE "unknown"
  ELSE "unknown"

Determined(w) == NdfBand(w) \in {"450", "850"}

SelectOf(wb) ==
  IF wb = "450" THEN "'850=0,450=1'"
  ELSE IF wb = "850" THEN "'850=1,450=0'" ELSE "no select"

IsShowing(m) ==
  m[1] = "msg" /\ m[2] \in {"Showing um values", "Showing um values from"}
ShowingMsgs(l) == SelectSeq(l, IsShowing)

CM_AfterList2 == {"write2", "meld", "cleanup", "done"}
CM_AfterList1 == {"write1", "list2"} \cup CM_AfterList2
CM_AfterReport == {"list1"} \cup CM_AfterList1
CM_AfterResolve == {"report"} \cup CM_AfterReport

\* C7: both configs NDFs of different wavebands: each is listed as an NDF
\* with the select specifier of its own waveband, and the wavebands are
\* reported by the two messages "Showing <waveband> um values from <file>".
C7_OwnWavebands ==
  (/\ script = "configmeld"
   /\ Determined(cfg1) /\ Determined(cfg2) /\ NdfBand(cfg1) # NdfBand(cfg2)) =>
     /\ pc \in CM_AfterReport =>
          ShowingMsgs(log) = <<MsgShowingFrom(NdfBand(cfg1), "config1"),
                               MsgShowingFrom(NdfBand(cfg2), "config2")>>
     /\ pc \in CM_AfterList1 => (isndf1 /\ select1 = SelectOf(NdfBand(cfg1)))
     /\ pc \in CM_AfterList2 => (isndf2 /\ select2 = SelectOf(NdfBand(cfg2)))

C7_Witness ==
  /\ script = "configmeld" /\ pc = "done"
  /\ NdfBand(cfg1) = "850" /\ NdfBand(cfg2) = "450"
  /\ select1 = "'850=1,450=0'" /\ select2 = "'850=0,450=1'"

\* C8: neither config an NDF: WAVEBAND is read, both configs are listed as
\* plain configs with the select specifier of its value, and the only
\* message about wavebands is one "Showing <waveband> um values".
C8_BothUseParameter ==
  (script = "configmeld" /\ ~IsNdf(cfg1) /\ ~IsNdf(cfg2)) =>
     /\ pc \in CM_AfterResolve =>
          (wavebandRead /\ waveband1 = WAVEBAND /\ waveband2 = WAVEBAND)
     /\ pc \in CM_AfterReport => ShowingMsgs(log) = <<MsgShowing(WAVEBAND)>>
     /\ pc \in CM_AfterList1 => (~isndf1 /\ select1 = SelectOf(WAVEBAND))
     /\ pc \in CM_AfterList2 => (~isndf2 /\ select2 = SelectOf(WAVEBAND))

C8_Witness ==
  /\ script = "configmeld" /\ pc = "done"
  /\ ~IsNdf(cfg1) /\ ~IsNdf(cfg2) /\ WAVEBAND = "450"
  /\ select1 = "'850=0,450=1'" /\ select2 = "'850=0,450=1'"

\* C9 as stated: if the FITS header of either config can be read, WAVEBAND
\* is never accessed.
C9_NeverAccessed ==
  (script = "configmeld" /\ (IsNdf(cfg1) \/ IsNdf(cfg2))) => ~wavebandRead

\* the waveband the listings have to use when some NDF determines one
FromNdfs(w, other) == IF Determined(w) THEN NdfBand(w) ELSE NdfBand(other)

\* C9 amended: if either config is an NDF whose waveband can be determined
\* from its SUBARRAY header or its provenance, WAVEBAND is never accessed and
\* the wavebands of both listings are determined from the NDFs.
C9_Amended ==
  (script = "configmeld" /\ (Determined(cfg1) \/ Determined(cfg2))) =>
     /\ ~wavebandRead
     /\ pc \in CM_AfterResolve =>
          /\ waveband1 = FromNdfs(cfg1, cfg2)
          /\ waveband2 = FromNdfs(cfg2, cfg1)
     /\ pc \in CM_AfterList1 => select1 = SelectOf(FromNdfs(cfg1, cfg2))
     /\ pc \in CM_AfterList2 => select2 = SelectOf(FromNdfs(cfg2, cfg1))

\* a plain config listed with the waveband of the NDF it is compared with
C9_Witness ==
  /\ script = "configmeld" /\ pc = "done"
  /\ ~IsNdf(cfg1) /\ NdfBand(cfg2) = "450"
  /\ ~wavebandRead /\ select1 = "'850=0,450=1'"

\* ========================================================== the handlers
Pos(l, m) == {i \in 1..Len(l) : l[i] = m}
ExitPcs == {"done", "handled", "raised"}

\* the handler of StarUtilError printed the error and then called cleanup()
PrintedThenCleanedUp ==
  /\ Cardinality(Pos(log, CallCleanup)) = 1
  /\ \E i \in Pos(log, PrintErr) : \E j \in Pos(log, CallCleanup) : i < j

\* the handler of any other exception called cleanup() and re-raised
CleanedUpThenRaised ==
  /\ Cardinality(Pos(log, CallCleanup)) = 1
  /\ Pos(log, Reraise) = {Len(log)}

C10_RetainHonoured ==
  (script \in {"pol2ip", "pol2stack"} /\ RESTART = None) =>
     /\ RETAIN => (Pos(log, NDGCleanup) = {} /\ ndgdir)
     /\ (~RETAIN /\ pc \in ExitPcs) => ~ndgdir

\* ================================================== configmeld: clean-up
\* C12: on every exit path of configmeld no config1.tmp or config2.tmp is
\* left and ParSys.cleanup() was called, the temporary ADAM directory gone.
C12_AlwaysCleansUp ==
  (script = "configmeld" /\ pc \in ExitPcs) =>
     /\ ~tmp1 /\ ~tmp2
     /\ Pos(log, ParSysCleanup) # {}
     /\ ~adamdir

OneNdf(a, b) == Determined(a) /\ ~IsNdf(b)

\* C14: exactly one config an NDF with a determinable waveband, the other
\* not an NDF: the plain config is listed with the waveband of the NDF, not
\* with WAVEBAND, and both listings use one select specifier.
C14_PlainFollowsNdf ==
  (script = "configmeld" /\ (OneNdf(cfg1, cfg2) \/ OneNdf(cfg2, cfg1))) =>
     LET wb == IF OneNdf(cfg1, cfg2) THEN NdfBand(cfg1) ELSE NdfBand(cfg2)
     IN  /\ ~wavebandRead
         /\ pc \in CM_AfterReport => ShowingMsgs(log) = <<MsgShowing(wb)>>
         /\ pc \in CM_AfterList1 =>
              (select1 = SelectOf(wb) /\ isndf1 = OneNdf(cfg1, cfg2))
         /\ pc \in CM_AfterList2 =>
              (select2 = SelectOf(wb) /\ select2 = select1
               /\ isndf2 = OneNdf(cfg2, cfg1))

\* a plain config1 listed for 850 um, as the NDF config2 is, WAVEBAND 450
C14_Witness ==
  /\ script = "configmeld" /\ pc = "done"
  /\ ~IsNdf(cfg1) /\ NdfBand(cfg2) = "850" /\ WAVEBAND = "450"
  /\ select1 = "'850=1,450=0'" /\ select2 = "'850=1,450=0'"

\* ================================================ pol2ip: Q clip, U clip
\* the sum of the squared U residuals of the points now in the lists
RECURSIVE SumSqU(_)
SumSqU(i) ==
  IF i = 0 THEN 0
  ELSE LET d == model2(elist[i], resx)[2] - ulist[i]
       IN  SumSqU(i - 1) + d * d

\* C15: within a round the parameters fitted at its start stay those of
\* both clips; the U RMS is computed after the Q clip, over the points that
\* survived it and no others, and the U clip looks at those points only.
C15_URmsAfterQClip ==
  [][ script = "pol2ip" =>
       /\ pc \in {"qrms", "qclip", "urms", "uclip"} => resx' = resx
       /\ pc = "qclip" =>
            /\ pc' = "urms"
            /\ Zip3(elist', qlist', ulist') =
                 SelectSeq(Zip3(elist, qlist, ulist),
                           LAMBDA t : Below(model2(t[1], resx)[1] - t[2], qrms))
       /\ (pc = "urms" /\ pc' = "uclip") =>
            /\ urms' = [ss |-> SumSqU(Len(elist)), n |-> Len(elist)]
            /\ UNCHANGED <<elist, qlist, ulist>>
       /\ pc = "uclip" =>
            IsSubSeq(Zip3(elist', qlist', ulist'), Zip3(elist, qlist, ulist))
    ]_vars

\* the Q clip removed a point, and the U RMS is that of the ones left
C15_Witness ==
  /\ script = "pol2ip" /\ pc = "uclip"
  /\ Len(elist) > 0 /\ Len(elist) < Len(elist0) /\ iter = 0
  /\ urms.n = Len(elist) /\ urms.ss > 0

\* ===================================================== pol2stack: ipol2
ST_AfterIpol2 == {"fcf", "process", "cleanup", "done"}
AllPol == \A i \in 1..Len(iin) : iin[i] # NoHeader /\ "pol" \in iin[i]
NonePol == \A i \in 1..Len(iin) : ~(iin[i] # NoHeader /\ "pol" \in iin[i])

\* C19: after the scan of the I maps ipol2 is True if every I map has
\* "pol" in its INBEAM header and False if none has; a mixture, and only a
\* mixture, ends the script with InvalidParameterError at the scan, before
\* any map is processed.
C19_Ipol2 ==
  [][ (script = "pol2stack" /\ pc = "ipol2") =>
        /\ AllPol => (pc' = "fcf" /\ ipol2' = "True")
        /\ NonePol => (pc' = "fcf" /\ ipol2' = "False")
        /\ (~AllPol /\ ~NonePol) => pc' = "except_SUE"
    ]_vars

\* ======================================================= pol2stack: FCFs
\* the FILTER header reads as the number n
FilterIs(n) == FILTER.there /\ FILTER.isnum /\ FILTER.tenths = 10 * n

\* C20 as stated: (962, 962) for FILTER 450 with POL2 I maps, (962, 491)
\* for 450 with others, (725, 725) for 850 with POL2, (725, 537) for 850
\* with others, no FILTER header counting as 850; any other FILTER value is
\* an InvalidParameterError.
C20_FcfTable ==
  [][ (script = "pol2stack" /\ pc = "fcf") =>
        /\ FilterIs(450) =>
             (pc' = "process" /\ fcf_qu' = 962
              /\ fcf_i' = IF ipol2 = "True" THEN 962 ELSE 491)
        /\ (FilterIs(850) \/ ~FILTER.there) =>
             (pc' = "process" /\ fcf_qu' = 725
              /\ fcf_i' = IF ipol2 = "True" THEN 725 ELSE 537)
        /\ ~(FilterIs(450) \/ FilterIs(850) \/ ~FILTER.there) =>
             pc' = "except_SUE"
    ]_vars

\* the FILTER header is a number whose integer part is n
FilterTruncatesTo(n) ==
  FILTER.there /\ FILTER.isnum /\ 10 * n <= FILTER.tenths /\ FILTER.tenths < 10 * n + 10

\* C20 amended: the table holds for a FILTER header that is a number whose
\* integer part is 450 or 850, no header counting as 850; any other number
\* is an InvalidParameterError, and a header that is not a number ends the
\* script with the ValueError of the conversion.  Once chosen, fcf_i equals
\* fcf_qu exactly when the I maps are POL2.
C20_Amended ==
  /\ [][ (script = "pol2stack" /\ pc = "fcf") =>
           /\ FilterTruncatesTo(450) =>
                (pc' = "process" /\ fcf_qu' = 962
                 /\ fcf_i' = IF ipol2 = "True" THEN 962 ELSE 491)
           /\ (FilterTruncatesTo(850) \/ ~FILTER.there) =>
                (pc' = "process" /\ fcf_qu' = 725
                 /\ fcf_i' = IF ipol2 = "True" THEN 725 ELSE 537)
           /\ (FILTER.there /\ ~FILTER.isnum) => pc' = "except_other"
           /\ (FILTER.there /\ FILTER.isnum
               /\ ~FilterTruncatesTo(450) /\ ~FilterTruncatesTo(850)) =>
                pc' = "except_SUE"
       ]_vars
  /\ []((script = "pol2stack" /\ fcf_qu # 0) =>
          ((fcf_i = fcf_qu) <=> ipol2 = "True"))

\* FILTER 450 with I maps that are not from POL2
C20_Witness ==
  /\ script = "pol2stack" /\ pc = "done"
  /\ FilterIs(450) /\ ipol2 = "False" /\ fcf_qu = 962 /\ fcf_i = 491

\* ================================================= pol2ip: data without noise
\* the original data are exactly the model's for the parameters t, given
\* the total intensity measured
ExactFrom(t) ==
  /\ Len(elist0) > 0
  /\ \A i \in 1..Len(elist0) : <<qlist0[i], ulist0[i]>> = model2(elist0[i], t)

\* the data determine a, b and c: I is not zero and there are three elevations
Identifiable ==
  ival # 0 /\ Cardinality({elist0[i] : i \in 1..Len(elist0)}) >= 3

\* C11: on data generated without noise from the model, with parameters
\* that the data determine, the fit loop runs to its end and the values
\* displayed are the true A, B and C and Q and U RMS residuals of zero.
C11_ZeroNoiseFit ==
  [][ (script = "pol2ip" /\ pc \in IP_FitPcs /\ Identifiable
       /\ \E t \in ParamGrid : ExactFrom(t)) =>
        /\ pc' \in IP_FitPcs \cup {"report"}
        /\ pc' = "report" =>
             \A t \in ParamGrid :
               ExactFrom(t) => (resx' = t /\ qrms'.ss = 0 /\ urms'.ss = 0)
    ]_vars

\* ====================================================== pol2ip: pixel sizes
IP_HandlerPcs == {"except_SUE", "except_other", "handled", "raised"}
IP_AfterConf == (IP_TryPcs \ {"parsys", "obslist", "pars", "restart", "env", "conf"})
                   \cup {"done"}

\* C16: while the script has not ended in an error every Q map and U map
\* looked at so far has the pixel size of the first observation's Q map, so
\* that a map that differs, made or re-used, ends the script before the fit;
\* from the fit stage on the I map used has that pixel size too, and so has
\* every map whose observation gave a data point.
C16_SamePixelSize ==
  script = "pol2ip" =>
    /\ pc \notin IP_HandlerPcs =>
         \A i \in 1..Len(mapdata) :
           mapdata[i].qpix = mapdata[1].qpix /\ mapdata[i].upix = mapdata[1].qpix
    /\ pc \in {"record"} \cup IP_AfterRecord =>
         /\ Len(mapdata) > 0 /\ Len(mapdata) = Len(obsdata)
         /\ ipix = mapdata[1].qpix
         /\ \A i \in 1..Len(obsdata) :
              obsdata[i][4] =>
                (mapdata[i].qpix = mapdata[1].qpix /\ mapdata[i].upix = mapdata[1].qpix)

\* two observations with old maps of 8 arc-seconds, re-used, and an I map
\* of 8 arc-seconds
C16_Witness ==
  /\ script = "pol2ip" /\ pc = "fit"
  /\ Len(mapdata) = 2 /\ mapdata[1].qpix = 8
  /\ mapdata[2].qthere /\ ~mapdata[2].qmade /\ mapdata[2].uthere /\ ~mapdata[2].umade
  /\ obsdata[2][4] /\ ipix = 8

\* the pixsize recorded by the previous run, 0 for none
Recorded == IF parfile \in {-1, 0} THEN 0 ELSE parfile

\* C17: newpixsize is true exactly when RESTART is supplied and the PIXSIZE
\* of this run (none if unspecified) differs from the pixsize recorded in
\* the PARAMS file of the RESTART directory (none if there is no file or no
\* entry); it is false whenever RESTART is not supplied.
C17_NewPixsize ==
  script = "pol2ip" =>
    /\ pc \in IP_AfterConf =>
         (newpixsize <=> (RESTART # None /\ PIXSIZE # Recorded))
    /\ RESTART = None => ~newpixsize

\* RESTART directory without a PARAMS file, and a PIXSIZE
C17_Witness ==
  /\ script = "pol2ip" /\ pc = "obs"
  /\ RESTART = "olddir" /\ parfile = -1 /\ PIXSIZE = 4 /\ newpixsize

\* C18: for each observation makemap is invoked for the Q map exactly when
\* qmap.sdf does not exist in the observation's directory or newpixsize is
\* true, and else the map is re-used; the same for the U map and umap.sdf,
\* once the Q map has passed the test of its pixel size.
C18_MakeOrReuse ==
  script = "pol2ip" =>
    \A i \in 1..Len(mapdata) :
      /\ mapdata[i].qmade <=> (~mapdata[i].qthere \/ newpixsize)
      /\ IF mapdata[i].upix # 0
           THEN mapdata[i].umade <=> (~mapdata[i].uthere \/ newpixsize)
           ELSE ~mapdata[i].umade

\* old maps made again because the pixel size has changed
C18_Witness ==
  /\ script = "pol2ip" /\ pc = "iref" /\ newpixsize
  /\ Len(mapdata) = 2
  /\ mapdata[2].qthere /\ mapdata[2].qmade /\ mapdata[2].uthere /\ mapdata[2].umade
====
